---- MODULE Spec2Model ----
(***************************************************************************)
(* gitten: the event loop of run_app (src/src/run_app.rs) around the       *)
(* Application State it drives.  The loop, its key dispatch and the        *)
(* watcher callback are translated from run_app.rs; the methods of App     *)
(* that run_app.rs calls follow sections 4.1-4.6 of the specification.     *)
(* Spec is the whole program; SpecKeys and SpecWatch are the two parts of  *)
(* it that are model-checked: every key with the watched tree quiet, and   *)
(* a busy watcher with the operator browsing, searching and editing.       *)
(* SpecLive is the loop beside the watcher under fairness; SpecInspect     *)
(* applies the inspection functions of src/src/utility.rs to every handle. *)
(***************************************************************************)
EXTENDS Integers, Sequences, FiniteSets, TLC

\* ------------------------------------------------------------------ bounds
\* Longest input buffer the model lets the operator type.
MaxInput == 1
\* Number of notifications the watcher produces in one run.
MaxNotifs == 3
\* Capacity of the channel between the watcher callback and the loop.
ChanCap == 2
\* Number of log entries the model lets accumulate.
MaxLogs == 1
\* Branches of a repository handed to the inspection.
MaxBranches == 2

\* ------------------------------------------------------------ key universe
\* Printable characters: the ones Normal mode maps to an effect.
Chars == {"q", "r", "t", "b", ":", "/", "$"}

\* ------------------------------------------------------------- filesystem
\* Children of the root, in the scanner's (name) order; a name is its characters.
DirNames == << <<"b", "r">>, <<"r", "t">>, <<"t", "q">> >>
NameSet == {DirNames[i] : i \in 1..Len(DirNames)}
\* What a child can be on disk: absent, a plain folder, a repository in one of
\* two git states.
FsStates ==
    {f \in [NameSet -> {"none", "dir", "repoA", "repoB"}] :
        /\ f[<<"b", "r">>] \in {"none", "repoB"}
        /\ f[<<"r", "t">>] \in {"none", "repoA", "repoB"}
        /\ f[<<"t", "q">>] \in {"dir"}}
InitialFs ==
    [n \in NameSet |-> CASE n = <<"b", "r">> -> "repoB"
                         [] n = <<"r", "t">> -> "repoA"
                         [] OTHER -> "dir"]

\* utility.rs is_repository: whether Repository::open succeeds on the path.
is_repository(kind) == kind \in {"repoA", "repoB"}
\* utility.rs get_repository_branches on a repository that lists cleanly.
get_repository_branches(kind) ==
    CASE kind = "repoA" -> <<"main", "dev">>
      [] kind = "repoB" -> <<"main">>
      [] OTHER -> <<>>
\* utility.rs get_repository_tags.
get_repository_tags(kind) ==
    CASE kind = "repoA" -> <<"1.0.0">>
      [] OTHER -> <<>>

\* One Entry of a scan.
MakeEntry(n, kind) ==
    [name |-> n,
     is_repository |-> is_repository(kind),
     branches |-> get_repository_branches(kind),
     tags |-> get_repository_tags(kind)]

RECURSIVE ScanFrom(_, _)
ScanFrom(f, i) ==
    IF i > Len(DirNames) THEN <<>>
    ELSE IF f[DirNames[i]] = "none" THEN ScanFrom(f, i + 1)
    ELSE <<MakeEntry(DirNames[i], f[DirNames[i]])>> \o ScanFrom(f, i + 1)
\* Directory Scanner: the ordered entries of current_path.
Scan(f) == ScanFrom(f, 1)

\* ------------------------------------------------------------------ state
VARIABLES
    pc,            \* where the loop of run_app stands: drain, draw, poll, tick, done
    exit,          \* how run_app ended: running, ok, err, panic
    fs,            \* the directory tree on disk
    chan,          \* app.channels: messages in flight, oldest first
    pending,       \* the message the watcher callback is blocked sending
    produced,      \* notifications the watcher has produced so far
    allItems,      \* the unfiltered entries of the last scan
    repositories,  \* SelectableList of entries
    branches,      \* SelectableList of branch names
    tags,          \* SelectableList of tag names
    logs,          \* SelectableList of log lines
    selection,     \* Selection
    input_mode,    \* InputMode
    input,         \* the input buffer, a sequence of characters
    applied,       \* ids of the messages update_application_content was called for
    iter,          \* what the current loop iteration has done so far: messages
                   \* taken from the channel, calls of update_application_content,
                   \* keys handled, the frames drawn, and the commands run
    repository,    \* the Option<Repository> handed to the inspection functions
    inspected      \* the outcome of the last inspection call

vars == <<pc, exit, fs, chan, pending, produced, allItems, repositories, branches,
          tags, logs, selection, input_mode, input, applied, iter,
          repository, inspected>>

appVars == <<allItems, repositories, branches, tags, logs, selection, input_mode, input>>
envVars == <<fs, chan, pending, produced>>
inspVars == <<repository, inspected>>
loopVars == <<pc, exit, envVars, appVars, applied, iter>>

NoMsg == [id |-> 0, ok |-> FALSE, paths |-> <<>>]
NewIter == [taken |-> 0, applied |-> 0, keys |-> <<>>, frames |-> <<>>, ran |-> <<>>]

\* ----------------------------------------------------- SelectableList<T>
List(items) == [items |-> items, selected |-> 0]

\* select_next: no-op when empty, index 0 (here 1) from none, else advance and wrap.
select_next(l) ==
    IF Len(l.items) = 0 THEN l
    ELSE IF l.selected = 0 THEN [l EXCEPT !.selected = 1]
    ELSE [l EXCEPT !.selected = IF l.selected >= Len(l.items) THEN 1 ELSE l.selected + 1]

\* select_previous: symmetric, wraps to the last index.
select_previous(l) ==
    IF Len(l.items) = 0 THEN l
    ELSE IF l.selected = 0 THEN [l EXCEPT !.selected = Len(l.items)]
    ELSE [l EXCEPT !.selected = IF l.selected = 1 THEN Len(l.items) ELSE l.selected - 1]

\* unselect: selection becomes None.
unselect(l) == [l EXCEPT !.selected = 0]

\* replace: new items, selection None.
replace(l, items) == [items |-> items, selected |-> 0]


\* ------------------------------------------------------ Application State
\* The entry highlighted in a repositories list; a non-repository default when
\* nothing is highlighted.
NoEntry == [name |-> <<>>, is_repository |-> FALSE, branches |-> <<>>, tags |-> <<>>]
SelectedOf(l) == IF l.selected = 0 THEN NoEntry ELSE l.items[l.selected]
get_selected_repository == SelectedOf(repositories)

\* Branch/Tag Refresh (4.4) for a repositories list: the two lists replaced by
\* those of the highlighted repository, or by empty lists.
BranchesFor(l) == replace(branches, SelectedOf(l).branches)
TagsFor(l) == replace(tags, SelectedOf(l).tags)

\* name contains s as a contiguous, case-sensitive substring.
Contains(name, s) ==
    \E i \in 0..(Len(name) - Len(s)) : SubSeq(name, i + 1, i + Len(s)) = s

RECURSIVE FilterFrom(_, _, _)
FilterFrom(items, s, i) ==
    IF i > Len(items) THEN <<>>
    ELSE IF Contains(items[i].name, s)
         THEN <<items[i]>> \o FilterFrom(items, s, i + 1)
         ELSE FilterFrom(items, s, i + 1)
\* Search Filter (4.5): the ordered subsequence of items whose name contains s.
Filter(items, s) == FilterFrom(items, s, 1)

\* Index of the entry named n in items, 0 when there is none.
IndexOfName(items, n) ==
    IF \E i \in 1..Len(items) : items[i].name = n
    THEN CHOOSE i \in 1..Len(items) : items[i].name = n
    ELSE 0

\* App::next: advance the list named by Selection; on the repositories list also
\* refresh branches and tags.
next ==
    /\ CASE selection = "Repositories" ->
                LET l == select_next(repositories) IN
                /\ repositories' = l
                /\ branches' = BranchesFor(l)
                /\ tags' = TagsFor(l)
         [] selection = "Branches" ->
                /\ branches' = select_next(branches)
                /\ UNCHANGED <<repositories, tags>>
         [] selection = "Tags" ->
                /\ tags' = select_next(tags)
                /\ UNCHANGED <<repositories, branches>>
    /\ UNCHANGED <<allItems, logs, selection, input_mode, input>>

\* App::previous.
previous ==
    /\ CASE selection = "Repositories" ->
                LET l == select_previous(repositories) IN
                /\ repositories' = l
                /\ branches' = BranchesFor(l)
                /\ tags' = TagsFor(l)
         [] selection = "Branches" ->
                /\ branches' = select_previous(branches)
                /\ UNCHANGED <<repositories, tags>>
         [] selection = "Tags" ->
                /\ tags' = select_previous(tags)
                /\ UNCHANGED <<repositories, branches>>
    /\ UNCHANGED <<allItems, logs, selection, input_mode, input>>

\* App::change_selection.
change_selection(s) ==
    /\ selection' = s
    /\ UNCHANGED <<allItems, repositories, branches, tags, logs, input_mode, input>>

\* App::search with the buffer buf: the visible list recomputed from the
\* unfiltered one, selection None, branches and tags refreshed.
search(buf) ==
    LET l == replace(repositories, Filter(allItems, buf)) IN
    /\ repositories' = l
    /\ branches' = BranchesFor(l)
    /\ tags' = TagsFor(l)
    /\ UNCHANGED <<allItems, logs, selection>>

\* App::reset_input: back to Normal with an empty buffer.
reset_input ==
    /\ input' = <<>>
    /\ input_mode' = "Normal"

\* App::process_input: the external action on the buffer, then reset_input.
process_input ==
    /\ reset_input
    /\ UNCHANGED <<allItems, repositories, branches, tags, logs, selection>>

\* App::run_command_with_path: spawn the command; a failure is one more log line.
run_command_with_path(spawned) ==
    /\ logs' = IF spawned THEN logs
               ELSE [logs EXCEPT !.items = Append(@, "spawn failed")]
    /\ UNCHANGED <<allItems, repositories, branches, tags, selection>>

\* Whether a changed path is at or under current_path.
UnderCurrentPath(path) == path = "under"

\* App::update_application_content (Change Reactor, 4.3): on a path at or under
\* current_path re-scan, replace the list, re-derive the selection by name and
\* refresh branches and tags.
update_application_content(path) ==
    IF UnderCurrentPath(path)
    THEN LET items == Scan(fs)
             remembered == SelectedOf(repositories).name
             l == [items |-> items,
                   selected |-> IF repositories.selected = 0 THEN 0
                                ELSE IndexOfName(items, remembered)]
         IN /\ allItems' = items
            /\ repositories' = l
            /\ branches' = BranchesFor(l)
            /\ tags' = TagsFor(l)
            /\ UNCHANGED <<logs, selection, input_mode, input>>
    ELSE UNCHANGED appVars

\* App::on_tick.
on_tick == UNCHANGED appVars

\* What ui() renders.
View ==
    [repositories |-> repositories, branches |-> branches, tags |-> tags,
     logs |-> logs, selection |-> selection, input_mode |-> input_mode,
     input |-> input]

\* --------------------------------------------------- repository inspection
\* A git2 repository as utility.rs reads it. listing is the result of
\* r.branches(None); items is what the branch iterator yields, one element per
\* branch: a branch whose name is text, an Err item, a branch whose name() is
\* Err, a branch whose name is not UTF-8 (name() is Ok(None)). head is the
\* result of r.head() (not resolved in a repository without commits) and the
\* reference's name() (None when it is not UTF-8).
BranchNames == {"main", "dev"}
BranchItems == BranchNames \cup {"ItemErr", "NameErr", "NameNotUtf8"}
SeqsUpTo(S, n) == UNION {[1..k -> S] : k \in 0..n}
Heads ==
    {[resolved |-> FALSE, utf8 |-> TRUE, name |-> <<>>],
     [resolved |-> TRUE, utf8 |-> TRUE, name |-> <<"refs/heads/", "main">>],
     [resolved |-> TRUE, utf8 |-> TRUE, name |-> <<"HEAD">>],
     [resolved |-> TRUE, utf8 |-> FALSE, name |-> <<>>]}

\* utility.rs 17-22: get_repository gives None for a path that does not open.
NoRepository ==
    [some |-> FALSE, listing |-> "ok", items |-> <<>>,
     head |-> [resolved |-> FALSE, utf8 |-> TRUE, name |-> <<>>]]
Repositories ==
    {NoRepository} \cup
    [some : {TRUE}, listing : {"ok", "err"},
     items : SeqsUpTo(BranchItems, MaxBranches), head : Heads]

\* A call either returns a value or aborts the thread (a panic of unwrap).
Returned(v) == [aborted |-> FALSE, value |-> v]
Aborted == [aborted |-> TRUE, value |-> <<>>]
NotInspected == [fn |-> "none", aborted |-> FALSE, value |-> <<>>]

\* str::replace(from, ""): every occurrence of from is removed.
replace_all(name, from) == SelectSeq(name, LAMBDA seg : seg # from)

\* utility.rs 38-53, on the repository handle itself: branches.unwrap() aborts
\* when the listing failed (47), b.unwrap() on an Err item and
\* name().unwrap().unwrap() on a name that is an error or not UTF-8 (48).
get_repository_branches_outcome(r) ==
    IF ~r.some THEN Returned(<<>>)
    ELSE IF r.listing = "err" THEN Aborted
    ELSE IF \E i \in 1..Len(r.items) : r.items[i] \notin BranchNames THEN Aborted
    ELSE Returned(r.items)

\* utility.rs 55-61: r.head().unwrap() aborts when HEAD does not resolve,
\* name().unwrap() when its name is not UTF-8; "refs/heads/" is removed.
get_repository_active_branch(r) ==
    IF ~r.some THEN Returned(<<>>)
    ELSE IF ~r.head.resolved THEN Aborted
    ELSE IF ~r.head.utf8 THEN Aborted
    ELSE Returned(replace_all(r.head.name, "refs/heads/"))

\* One call of get_repository_branches on the opened handle.
InspectBranches ==
    /\ ~inspected.aborted
    /\ LET o == get_repository_branches_outcome(repository)
       IN inspected' = [fn |-> "branches", aborted |-> o.aborted, value |-> o.value]
    /\ UNCHANGED <<repository, loopVars>>

\* One call of get_repository_active_branch on the opened handle.
InspectActiveBranch ==
    /\ ~inspected.aborted
    /\ LET o == get_repository_active_branch(repository)
       IN inspected' = [fn |-> "active_branch", aborted |-> o.aborted, value |-> o.value]
    /\ UNCHANGED <<repository, loopVars>>

\* ---------------------------------------------------------------- Init
\* The loop before its first iteration.
InitLoop ==
    /\ pc = "drain"
    /\ exit = "running"
    /\ fs = InitialFs
    /\ chan = <<>>
    /\ pending = NoMsg
    /\ produced = 0
    /\ allItems = Scan(InitialFs)
    /\ repositories = List(Scan(InitialFs))
    /\ branches = List(<<>>)
    /\ tags = List(<<>>)
    /\ logs = List(<<>>)
    /\ selection = "Repositories"
    /\ input_mode = "Normal"
    /\ input = <<>>
    /\ applied = <<>>
    /\ iter = NewIter

\* The program at start: no inspection call is under way.
Init ==
    /\ InitLoop
    /\ repository = NoRepository
    /\ inspected = NotInspected

\* Any handle get_repository can give, before it is inspected.
InitInspect ==
    /\ InitLoop
    /\ repository \in Repositories
    /\ inspected = NotInspected


\* ------------------------------------------------------------- the watcher
\* Payloads a notification names: no path, one path, two paths.
PathSeqs == {<<>>, <<"under">>, <<"outside", "under">>}
Touches(paths) == \E i \in 1..Len(paths) : UnderCurrentPath(paths[i])

\* Trees that differ from f in one child.
Neighbours(f) == {g \in FsStates : Cardinality({n \in NameSet : g[n] # f[n]}) = 1}

\* run_app.rs 30-33: the callback sends res on the channel; block_on returns at
\* once when the channel has room and otherwise holds res until it has.
callback(res) ==
    IF Len(chan) < ChanCap
    THEN /\ chan' = Append(chan, res)
         /\ pending' = pending
    ELSE /\ pending' = res
         /\ chan' = chan

\* A callback that owns the application and refreshes its listing itself
\* instead of leaving that to the loop.
WatcherEventRescans ==
    /\ exit = "running"
    /\ pending = NoMsg
    /\ produced < MaxNotifs
    /\ \E paths \in PathSeqs :
          /\ callback([id |-> produced + 1, ok |-> TRUE, paths |-> paths])
          /\ IF Touches(paths) THEN fs' \in Neighbours(fs) ELSE fs' = fs
    /\ produced' = produced + 1
    /\ allItems' = Scan(fs')
    /\ UNCHANGED <<pc, exit, repositories, branches, tags, logs, selection,
                   input_mode, input, applied, iter>>
    /\ UNCHANGED inspVars

\* run_app.rs 30: the watcher saw a change and calls the callback with Ok(event).
WatcherEvent ==
    /\ exit = "running"
    /\ pending = NoMsg
    /\ produced < MaxNotifs
    /\ \E paths \in PathSeqs :
          /\ callback([id |-> produced + 1, ok |-> TRUE, paths |-> paths])
          /\ IF Touches(paths) THEN fs' \in Neighbours(fs) ELSE fs' = fs
    /\ produced' = produced + 1
    /\ UNCHANGED <<pc, exit, appVars, applied, iter>>
    /\ UNCHANGED inspVars

\* run_app.rs 30: the watcher calls the callback with Err(error).
WatcherError ==
    /\ exit = "running"
    /\ pending = NoMsg
    /\ produced < MaxNotifs
    /\ callback([id |-> produced + 1, ok |-> FALSE, paths |-> <<>>])
    /\ produced' = produced + 1
    /\ UNCHANGED <<pc, exit, fs, appVars, applied, iter>>
    /\ UNCHANGED inspVars

\* run_app.rs 32: the blocked channels.send(res).await completes once the channel
\* has room.
WatcherSend ==
    /\ exit = "running"
    /\ pending # NoMsg
    /\ Len(chan) < ChanCap
    /\ chan' = Append(chan, pending)
    /\ pending' = NoMsg
    /\ UNCHANGED <<pc, exit, fs, produced, appVars, applied, iter>>
    /\ UNCHANGED inspVars

\* ---------------------------------------------------------------- the loop
\* A receiver that hands out the newest message first.
TryNextNewest(q) == [msg |-> q[Len(q)], rest |-> SubSeq(q, 1, Len(q) - 1)]

\* run_app.rs 39: try_next takes the oldest message.
TryNext(q) == [msg |-> Head(q), rest |-> Tail(q)]

\* run_app.rs 39, no message pending: try_next returns Err and the loop goes on.
DrainNone ==
    /\ pc = "drain"
    /\ chan = <<>>
    /\ pc' = "draw"
    /\ UNCHANGED <<exit, envVars, appVars, applied, iter>>
    /\ UNCHANGED inspVars

\* A drain written as a loop (while let): the iteration stays at the drain and
\* takes whatever else is pending before it draws.
DrainMessageAll ==
    /\ pc = "drain"
    /\ chan # <<>>
    /\ LET m == TryNext(chan).msg IN
       /\ chan' = TryNext(chan).rest
       /\ m.ok /\ m.paths # <<>>
       /\ update_application_content(m.paths[1])
       /\ applied' = Append(applied, m.id)
       /\ iter' = [iter EXCEPT !.taken = @ + 1, !.applied = @ + 1]
    /\ UNCHANGED <<pc, exit, fs, pending, produced>>
    /\ UNCHANGED inspVars

\* A drain whose pattern never matches an event: the message is taken and
\* update_application_content is not called.
DrainMessageNoUpdate ==
    /\ pc = "drain"
    /\ chan # <<>>
    /\ chan' = TryNext(chan).rest
    /\ pc' = "draw"
    /\ iter' = [iter EXCEPT !.taken = @ + 1]
    /\ UNCHANGED <<exit, fs, pending, produced, appVars, applied>>
    /\ UNCHANGED inspVars

\* A drain that looks at the channel without taking the message from it.
DrainMessagePeeks ==
    /\ pc = "drain"
    /\ chan # <<>>
    /\ pc' = "draw"
    /\ UNCHANGED <<exit, envVars, appVars, applied, iter>>
    /\ UNCHANGED inspVars

\* run_app.rs 39-41, a message pending: it is removed; an Ok(event) goes to
\* update_application_content with its first path (unwrap aborts when the event
\* names no path), an Err(..) does not match the pattern.
DrainMessage ==
    /\ pc = "drain"
    /\ chan # <<>>
    /\ LET m == TryNext(chan).msg IN
       /\ chan' = TryNext(chan).rest
       /\ IF m.ok /\ m.paths = <<>>
          THEN /\ pc' = "done"
               /\ exit' = "panic"
               /\ iter' = [iter EXCEPT !.taken = @ + 1]
               /\ UNCHANGED <<appVars, applied>>
          ELSE /\ pc' = "draw"
               /\ exit' = exit
               /\ IF m.ok
                  THEN /\ update_application_content(m.paths[1])
                       /\ applied' = Append(applied, m.id)
                       /\ iter' = [iter EXCEPT !.taken = @ + 1, !.applied = @ + 1]
                  ELSE /\ UNCHANGED <<appVars, applied>>
                       /\ iter' = [iter EXCEPT !.taken = @ + 1]
    /\ UNCHANGED <<fs, pending, produced>>
    /\ UNCHANGED inspVars

\* run_app.rs 43-45: terminal.draw renders the state.
Draw ==
    /\ pc = "draw"
    /\ pc' = "poll"
    /\ iter' = [iter EXCEPT !.frames = Append(@, View)]
    /\ UNCHANGED <<exit, envVars, appVars, applied>>
    /\ UNCHANGED inspVars

\* run_app.rs 45: terminal.draw fails and the error is returned.
DrawError ==
    /\ pc = "draw"
    /\ pc' = "done"
    /\ exit' = "err"
    /\ UNCHANGED <<envVars, appVars, applied, iter>>
    /\ UNCHANGED inspVars

\* run_app.rs 51: event::poll times out with no event.
PollTimeout ==
    /\ pc = "poll"
    /\ pc' = "tick"
    /\ UNCHANGED <<exit, envVars, appVars, applied, iter>>
    /\ UNCHANGED inspVars

\* run_app.rs 51-52: event::poll or event::read fails and the error is returned.
PollError ==
    /\ pc = "poll"
    /\ pc' = "done"
    /\ exit' = "err"
    /\ UNCHANGED <<envVars, appVars, applied, iter>>
    /\ UNCHANGED inspVars

\* run_app.rs 52: an event that is not a key (resize, mouse).
PollNonKey ==
    /\ pc = "poll"
    /\ pc' = "tick"
    /\ UNCHANGED <<exit, envVars, appVars, applied, iter>>
    /\ UNCHANGED inspVars

\* What every handled key leaves alone, and where the loop goes next.
KeyHandled(key) ==
    /\ pc' = "tick"
    /\ iter' = [iter EXCEPT !.keys = Append(@, key)]
    /\ UNCHANGED <<exit, envVars, applied>>

\* run_app.rs 55: 'q' in Normal returns Ok(()).
NormalQuit ==
    /\ pc = "poll" /\ input_mode = "Normal"
    /\ pc' = "done"
    /\ exit' = "ok"
    /\ iter' = [iter EXCEPT !.keys = Append(@, "q")]
    /\ UNCHANGED <<envVars, appVars, applied>>
    /\ UNCHANGED inspVars

\* run_app.rs 56: Left.
NormalLeft ==
    /\ pc = "poll" /\ input_mode = "Normal"
    /\ repositories' = unselect(repositories)
    /\ UNCHANGED <<allItems, branches, tags, logs, selection, input_mode, input>>
    /\ KeyHandled("Left")
    /\ UNCHANGED inspVars

\* run_app.rs 57: Down.
NormalDown ==
    /\ pc = "poll" /\ input_mode = "Normal"
    /\ next
    /\ KeyHandled("Down")
    /\ UNCHANGED inspVars

\* run_app.rs 58: Up.
NormalUp ==
    /\ pc = "poll" /\ input_mode = "Normal"
    /\ previous
    /\ KeyHandled("Up")
    /\ UNCHANGED inspVars

\* run_app.rs 59-61: 'r', 't', 'b'.
NormalSelect ==
    /\ pc = "poll" /\ input_mode = "Normal"
    /\ \E c \in {"r", "t", "b"} :
          /\ change_selection(CASE c = "r" -> "Repositories"
                                [] c = "t" -> "Tags"
                                [] c = "b" -> "Branches")
          /\ KeyHandled(c)
    /\ UNCHANGED inspVars

\* ':' without the is_repository test.
NormalColonUnguarded ==
    /\ pc = "poll" /\ input_mode = "Normal"
    /\ input_mode' = "Editing"
    /\ UNCHANGED <<allItems, repositories, branches, tags, logs, selection, input>>
    /\ KeyHandled(":")
    /\ UNCHANGED inspVars

\* run_app.rs 62-66: ':'.
NormalColon ==
    /\ pc = "poll" /\ input_mode = "Normal"
    /\ input_mode' = IF get_selected_repository.is_repository THEN "Editing" ELSE input_mode
    /\ UNCHANGED <<allItems, repositories, branches, tags, logs, selection, input>>
    /\ KeyHandled(":")
    /\ UNCHANGED inspVars

\* run_app.rs 67-69: '/'.
NormalSlash ==
    /\ pc = "poll" /\ input_mode = "Normal"
    /\ input_mode' = "Search"
    /\ UNCHANGED <<allItems, repositories, branches, tags, logs, selection, input>>
    /\ KeyHandled("/")
    /\ UNCHANGED inspVars

\* '$' without the test of the selection.
NormalDollarUnguarded ==
    /\ pc = "poll" /\ input_mode = "Normal"
    /\ input_mode' = "Command"
    /\ UNCHANGED <<allItems, repositories, branches, tags, logs, selection, input>>
    /\ KeyHandled("$")
    /\ UNCHANGED inspVars

\* run_app.rs 70-74: '$'.
NormalDollar ==
    /\ pc = "poll" /\ input_mode = "Normal"
    /\ input_mode' = IF selection = "Repositories" THEN "Command" ELSE input_mode
    /\ UNCHANGED <<allItems, repositories, branches, tags, logs, selection, input>>
    /\ KeyHandled("$")
    /\ UNCHANGED inspVars

\* A default arm in which Esc also returns Ok(()).
NormalOtherEscQuits ==
    /\ pc = "poll" /\ input_mode = "Normal"
    /\ \E k \in {"Enter", "Esc", "Backspace", "F1", "x"} :
          /\ iter' = [iter EXCEPT !.keys = Append(@, k)]
          /\ IF k = "Esc"
             THEN pc' = "done" /\ exit' = "ok"
             ELSE pc' = "tick" /\ exit' = exit
    /\ UNCHANGED <<envVars, appVars, applied>>
    /\ UNCHANGED inspVars

\* run_app.rs 75: any other key in Normal.
NormalOther ==
    /\ pc = "poll" /\ input_mode = "Normal"
    /\ \E k \in {"Enter", "Esc", "Backspace", "F1", "x"} : KeyHandled(k)
    /\ UNCHANGED appVars
    /\ UNCHANGED inspVars


\* String::push and String::pop on the input buffer.
push(buf, c) == Append(buf, c)
pop(buf) == IF buf = <<>> THEN buf ELSE SubSeq(buf, 1, Len(buf) - 1)

\* An Editing arm that lets 'r', 't' and 'b' through to change_selection.
EditingCharLeaks(typed) ==
    /\ pc = "poll" /\ input_mode = "Editing"
    /\ Len(input) < MaxInput
    /\ \E c \in typed :
          /\ IF c \in {"r", "t", "b"}
             THEN change_selection(CASE c = "r" -> "Repositories"
                                     [] c = "t" -> "Tags"
                                     [] c = "b" -> "Branches")
             ELSE /\ input' = push(input, c)
                  /\ UNCHANGED <<allItems, repositories, branches, tags, logs,
                                 selection, input_mode>>
          /\ KeyHandled(c)
    /\ UNCHANGED inspVars

\* run_app.rs 78-80: a character in Editing.
EditingChar(typed) ==
    /\ pc = "poll" /\ input_mode = "Editing"
    /\ Len(input) < MaxInput
    /\ \E c \in typed :
          /\ input' = push(input, c)
          /\ KeyHandled(c)
    /\ UNCHANGED <<allItems, repositories, branches, tags, logs, selection, input_mode>>
    /\ UNCHANGED inspVars

\* run_app.rs 81-83: Backspace in Editing.
EditingBackspace ==
    /\ pc = "poll" /\ input_mode = "Editing"
    /\ input' = pop(input)
    /\ UNCHANGED <<allItems, repositories, branches, tags, logs, selection, input_mode>>
    /\ KeyHandled("Backspace")
    /\ UNCHANGED inspVars

\* run_app.rs 84-86: Enter in Editing.
EditingEnter ==
    /\ pc = "poll" /\ input_mode = "Editing"
    /\ process_input
    /\ KeyHandled("Enter")
    /\ UNCHANGED inspVars

\* run_app.rs 87-89: Esc in Editing.
EditingEsc ==
    /\ pc = "poll" /\ input_mode = "Editing"
    /\ reset_input
    /\ UNCHANGED <<allItems, repositories, branches, tags, logs, selection>>
    /\ KeyHandled("Esc")
    /\ UNCHANGED inspVars

\* run_app.rs 90: any other key in Editing.
EditingOther ==
    /\ pc = "poll" /\ input_mode = "Editing"
    /\ \E k \in {"Left", "Down", "Up", "F1"} : KeyHandled(k)
    /\ UNCHANGED appVars
    /\ UNCHANGED inspVars

\* run_app.rs 93-96: a character in Search.
SearchChar(typed) ==
    /\ pc = "poll" /\ input_mode = "Search"
    /\ Len(input) < MaxInput
    /\ \E c \in typed :
          /\ input' = push(input, c)
          /\ search(push(input, c))
          /\ KeyHandled(c)
    /\ UNCHANGED input_mode
    /\ UNCHANGED inspVars

\* run_app.rs 97-99: Backspace in Search.
SearchBackspace ==
    /\ pc = "poll" /\ input_mode = "Search"
    /\ input' = pop(input)
    /\ UNCHANGED <<allItems, repositories, branches, tags, logs, selection, input_mode>>
    /\ KeyHandled("Backspace")
    /\ UNCHANGED inspVars

\* Enter or Esc in Search that only switches the mode back.
SearchLeaveKeepsBuffer ==
    /\ pc = "poll" /\ input_mode = "Search"
    /\ \E k \in {"Enter", "Esc"} :
          /\ input_mode' = "Normal"
          /\ KeyHandled(k)
    /\ UNCHANGED <<allItems, repositories, branches, tags, logs, selection, input>>
    /\ UNCHANGED inspVars

\* run_app.rs 100-102: Enter or Esc in Search.
SearchLeave ==
    /\ pc = "poll" /\ input_mode = "Search"
    /\ \E k \in {"Enter", "Esc"} :
          /\ reset_input
          /\ KeyHandled(k)
    /\ UNCHANGED <<allItems, repositories, branches, tags, logs, selection>>
    /\ UNCHANGED inspVars

\* A Search arm that lets Down through to the list.
SearchOtherNavigates ==
    /\ pc = "poll" /\ input_mode = "Search"
    /\ \E k \in {"Left", "Down", "Up", "F1"} :
          /\ IF k = "Down" THEN next ELSE UNCHANGED appVars
          /\ KeyHandled(k)
    /\ UNCHANGED inspVars

\* run_app.rs 103: any other key in Search.
SearchOther ==
    /\ pc = "poll" /\ input_mode = "Search"
    /\ \E k \in {"Left", "Down", "Up", "F1"} : KeyHandled(k)
    /\ UNCHANGED appVars
    /\ UNCHANGED inspVars

\* run_app.rs 106-108: a character in Command.
CommandChar(typed) ==
    /\ pc = "poll" /\ input_mode = "Command"
    /\ Len(input) < MaxInput
    /\ \E c \in typed :
          /\ input' = push(input, c)
          /\ KeyHandled(c)
    /\ UNCHANGED <<allItems, repositories, branches, tags, logs, selection, input_mode>>
    /\ UNCHANGED inspVars

\* run_app.rs 109-111: Backspace in Command.
CommandBackspace ==
    /\ pc = "poll" /\ input_mode = "Command"
    /\ input' = pop(input)
    /\ UNCHANGED <<allItems, repositories, branches, tags, logs, selection, input_mode>>
    /\ KeyHandled("Backspace")
    /\ UNCHANGED inspVars

\* Enter in Command with the two calls in the other order: the buffer is
\* cleared first and the command runs with what is left.
CommandEnterResetsFirst ==
    /\ pc = "poll" /\ input_mode = "Command"
    /\ reset_input
    /\ \E spawned \in BOOLEAN :
          /\ spawned \/ Len(logs.items) < MaxLogs
          /\ run_command_with_path(spawned)
          /\ iter' = [iter EXCEPT !.keys = Append(@, "Enter"),
                                  !.ran = Append(@, [line |-> <<>>, spawned |-> spawned])]
    /\ pc' = "tick"
    /\ UNCHANGED <<exit, envVars, applied>>
    /\ UNCHANGED inspVars

\* run_app.rs 112-115: Enter in Command runs the command with the buffer as it
\* is, then resets the input.
CommandEnter ==
    /\ pc = "poll" /\ input_mode = "Command"
    /\ \E spawned \in BOOLEAN :
          /\ spawned \/ Len(logs.items) < MaxLogs
          /\ run_command_with_path(spawned)
          /\ iter' = [iter EXCEPT !.keys = Append(@, "Enter"),
                                  !.ran = Append(@, [line |-> input, spawned |-> spawned])]
    /\ reset_input
    /\ pc' = "tick"
    /\ UNCHANGED <<exit, envVars, applied>>
    /\ UNCHANGED inspVars

\* run_app.rs 116-118: Esc in Command.
CommandEsc ==
    /\ pc = "poll" /\ input_mode = "Command"
    /\ reset_input
    /\ UNCHANGED <<allItems, repositories, branches, tags, logs, selection>>
    /\ KeyHandled("Esc")
    /\ UNCHANGED inspVars

\* run_app.rs 119: any other key in Command.
CommandOther ==
    /\ pc = "poll" /\ input_mode = "Command"
    /\ \E k \in {"Left", "Down", "Up", "F1"} : KeyHandled(k)
    /\ UNCHANGED appVars
    /\ UNCHANGED inspVars

\* run_app.rs 125-128: the tick rate has elapsed.
Tick ==
    /\ pc = "tick"
    /\ on_tick
    /\ pc' = "drain"
    /\ iter' = NewIter
    /\ UNCHANGED <<exit, envVars, applied>>
    /\ UNCHANGED inspVars

\* run_app.rs 125: the tick rate has not elapsed.
NoTick ==
    /\ pc = "tick"
    /\ pc' = "drain"
    /\ iter' = NewIter
    /\ UNCHANGED <<exit, envVars, appVars, applied>>
    /\ UNCHANGED inspVars

Watcher == WatcherEvent \/ WatcherError \/ WatcherSend

\* The key dispatch of run_app.rs 53-121, every arm.
Keys ==
    \/ NormalQuit \/ NormalLeft \/ NormalDown \/ NormalUp \/ NormalSelect
    \/ NormalColon \/ NormalSlash \/ NormalDollar \/ NormalOther
    \/ EditingChar(Chars) \/ EditingBackspace \/ EditingEnter \/ EditingEsc \/ EditingOther
    \/ SearchChar(Chars) \/ SearchBackspace \/ SearchLeave \/ SearchOther
    \/ CommandChar(Chars) \/ CommandBackspace \/ CommandEnter \/ CommandEsc \/ CommandOther

\* One step of the loop with nothing on the channel.
LoopQuiet ==
    \/ DrainNone
    \/ Draw \/ DrawError
    \/ PollTimeout \/ PollError \/ PollNonKey
    \/ Keys
    \/ Tick \/ NoTick

Loop == DrainMessage \/ LoopQuiet

Next == Watcher \/ Loop

\* The whole program: the watcher beside the loop.
Spec == Init /\ [][Next]_vars

\* The loop under every key, the watched tree quiet.
SpecKeys == Init /\ [][LoopQuiet]_vars

\* Characters the operator types while the tree changes.
WatchChars == {"r"}

\* The loop beside a busy watcher, the operator browsing, searching and editing.
NextWatch ==
    \/ Watcher
    \/ DrainNone \/ DrainMessage
    \/ Draw \/ DrawError
    \/ PollTimeout \/ PollError
    \/ NormalQuit \/ NormalDown \/ NormalColon \/ NormalSlash
    \/ EditingEnter \/ EditingEsc
    \/ SearchChar(WatchChars) \/ SearchLeave
    \/ Tick \/ NoTick

SpecWatch == Init /\ [][NextWatch]_vars

\* The loop with no key pressed but 'q', beside the watcher. Every step of the
\* loop ends (poll waits at most the tick rate, run_app.rs 47-51), so the loop
\* keeps taking steps until it returns; a blocked send is woken once the
\* channel has room (run_app.rs 32).
LoopLive ==
    \/ DrainNone \/ DrainMessage
    \/ Draw \/ DrawError
    \/ PollTimeout \/ PollError
    \/ NormalQuit
    \/ Tick \/ NoTick

NextLive == Watcher \/ LoopLive

SpecLive == Init /\ [][NextLive]_vars /\ WF_vars(LoopLive) /\ WF_vars(WatcherSend)

\* The inspection functions applied to every handle.
NextInspect == InspectBranches \/ InspectActiveBranch

SpecInspect == InitInspect /\ [][NextInspect]_vars


\* ------------------------------------------------------------ properties
\* The loop, at the key dispatch in mode m, handles key k in this step.
Handles(m, k) ==
    /\ pc = "poll"
    /\ input_mode = m
    /\ iter'.keys = Append(iter.keys, k)

InputModes == {"Editing", "Search", "Command"}

\* C1: in Editing, Search and Command every printable character, the ones Normal
\* maps to an effect included, is appended to the input buffer and leaves
\* Selection and InputMode alone; the loop goes on.
C1_ModeIsolation ==
    [][\A m \in InputModes : \A c \in Chars :
          Handles(m, c) =>
              /\ selection' = selection
              /\ input_mode' = input_mode
              /\ pc' = "tick"
              /\ exit' = "running"
              /\ input' = Append(input, c)]_vars

\* 'q' was typed in Search: the buffer holds it and the loop runs on.
C1_Witness ==
    /\ pc = "tick"
    /\ exit = "running"
    /\ input_mode = "Search"
    /\ iter.keys = <<"q">>
    /\ input = <<"q">>

\* C2: branches and tags are those of the highlighted repositories entry, and
\* empty when that entry is no repository or nothing is highlighted.
C2_BranchesTagsReflectHighlighted ==
    /\ branches.items = SelectedOf(repositories).branches
    /\ tags.items = SelectedOf(repositories).tags

\* C3: in Search, right after a character or Backspace, the visible list is the
\* ordered subsequence of the last scan whose names contain the buffer.
C3_SearchViewIsFilter ==
    [][\A k \in Chars \cup {"Backspace"} :
          Handles("Search", k) => repositories'.items = Filter(allItems', input')]_vars

\* C4: a message try_next takes from the channel is passed to
\* update_application_content in the same iteration, whatever it carries.
C4_EveryTakenMessageApplied ==
    exit = "running" => iter.applied = iter.taken

C6_CommandOnlyOnRepositories ==
    /\ [](input_mode = "Command" => selection = "Repositories")
    /\ [][(Handles("Normal", "$") /\ selection # "Repositories") =>
              (UNCHANGED appVars /\ pc' = "tick" /\ exit' = "running")]_vars

\* '$' was pressed with Selection = Branches and the mode is still Normal.
C6_Witness ==
    /\ pc = "tick"
    /\ iter.keys = <<"$">>
    /\ selection = "Branches"
    /\ input_mode = "Normal"

\* C7: ':' in Normal enters Editing exactly when a repository is highlighted;
\* otherwise (a plain folder, nothing highlighted, an empty list) it changes
\* nothing and the loop goes on.
C7_ColonEntersEditingOnRepository ==
    [][Handles("Normal", ":") =>
          /\ pc' = "tick"
          /\ exit' = "running"
          /\ UNCHANGED <<allItems, repositories, branches, tags, logs, selection, input>>
          /\ input_mode' =
                IF /\ repositories.selected # 0
                   /\ repositories.items[repositories.selected].is_repository
                THEN "Editing" ELSE "Normal"]_vars

\* ':' was pressed on a highlighted plain folder and the mode is still Normal.
C7_Witness ==
    /\ pc = "tick"
    /\ iter.keys = <<":">>
    /\ input_mode = "Normal"
    /\ repositories.selected # 0
    /\ ~ SelectedOf(repositories).is_repository

\* C8: an iteration drains at most one message, then draws exactly one frame,
\* then handles at most one key; the frame shows the state as the drain and the
\* keys before it left it.
C8_IterationOrder ==
    /\ iter.taken <= 1
    /\ iter.applied <= iter.taken
    /\ Len(iter.frames) <= 1
    /\ Len(iter.keys) <= 1
    /\ pc = "drain" => iter = NewIter
    /\ pc = "draw" => (iter.frames = <<>> /\ iter.keys = <<>>)
    /\ pc = "poll" => (Len(iter.frames) = 1 /\ iter.frames[1] = View /\ iter.keys = <<>>)
    /\ pc = "tick" => Len(iter.frames) = 1

\* An iteration that drained one message of a burst, drew and handled a key,
\* the next message still waiting.
C8_Witness ==
    /\ pc = "tick"
    /\ iter.taken = 1
    /\ Len(iter.frames) = 1
    /\ Len(iter.keys) = 1
    /\ chan # <<>>

\* Messages still on their way to the loop.
InFlight == {chan[i] : i \in 1..Len(chan)} \cup (IF pending = NoMsg THEN {} ELSE {pending})

\* C9: notifications are applied in arrival order, each in an iteration of its
\* own: an application is the only one of its iteration, and everything that
\* arrived before the applied notification has left the channel.
C9_ArrivalOrder ==
    [][applied' # applied =>
          /\ \E id \in 1..MaxNotifs : applied' = Append(applied, id)
          /\ \A i \in 1..Len(applied) : applied[i] < applied'[Len(applied')]
          /\ \A m \in InFlight' : m.id > applied'[Len(applied')]
          /\ iter.applied = 0
          /\ iter'.applied = 1]_vars

\* Two notifications applied, the first before the second, a third waiting.
C9_Witness ==
    /\ applied = <<1, 2>>
    /\ iter.applied = 1
    /\ chan # <<>>

\* The loop drains, in this step, an event whose paths are all under the root.
DrainsChangeUnderRoot ==
    /\ pc = "drain"
    /\ chan # <<>>
    /\ Head(chan).ok
    /\ Head(chan).paths # <<>>
    /\ \A i \in 1..Len(Head(chan).paths) : UnderCurrentPath(Head(chan).paths[i])
    /\ pc' # pc

\* C10 (Scenario D): draining a change under the root while an entry is
\* highlighted replaces the list by a fresh scan; the entry of the same name is
\* highlighted afterwards with its branches and tags, and when there is none
\* nothing is highlighted and both are empty.
C10_RescanKeepsSelectionByName ==
    [][(DrainsChangeUnderRoot /\ repositories.selected # 0) =>
          LET foo == repositories.items[repositories.selected].name
              fresh == Scan(fs)
              found == {i \in 1..Len(fresh) : fresh[i].name = foo}
          IN /\ repositories'.items = fresh
             /\ IF found # {}
                THEN /\ repositories'.selected \in found
                     /\ branches'.items = fresh[repositories'.selected].branches
                     /\ tags'.items = fresh[repositories'.selected].tags
                ELSE /\ repositories'.selected = 0
                     /\ branches'.items = <<>>
                     /\ tags'.items = <<>>]_vars

\* The first notification removed the entry above the highlighted one: the
\* highlight followed the name to its new place, branches and tags with it.
C10_Witness ==
    /\ pc = "draw"
    /\ applied = <<1>>
    /\ iter.applied = 1
    /\ repositories.selected = 1
    /\ repositories.items[1].name = <<"r", "t">>
    /\ branches.items # <<>>

\* C11: single writer. A step of the watcher (a notification produced, or a
\* blocked send completed) leaves the application state and the loop's position
\* alone, and a produced notification adds exactly one message to those in
\* flight; every change of the application state is a step of the loop that
\* moves the loop on and leaves the watcher's side alone.
C11_SingleWriter ==
    [][/\ (produced' # produced \/ pending' # pending \/ Len(chan') > Len(chan)) =>
             /\ UNCHANGED <<appVars, pc, exit, applied, iter>>
             /\ IF produced' # produced
                THEN /\ produced' = produced + 1
                     /\ \E m \in InFlight' :
                           /\ m.id = produced'
                           /\ InFlight' = InFlight \cup {m}
                           /\ m \notin InFlight
                ELSE InFlight' = InFlight
       /\ appVars' # appVars =>
             /\ pc \in {"drain", "poll"}
             /\ pc' # pc
             /\ UNCHANGED <<produced, pending, fs>>]_vars

\* The watcher has reported a change of the tree and its message waits on the
\* channel; the application still shows the listing of before.
C11_Witness ==
    /\ chan # <<>>
    /\ produced > 0
    /\ applied = <<>>
    /\ allItems # Scan(fs)
    /\ allItems = Scan(InitialFs)

\* C12: Enter or Esc handled in Editing, Search or Command ends the step in
\* Normal with an empty input buffer; so the buffer is empty in every state
\* whose mode is Normal, and every step that leaves Normal enters the new mode
\* with an empty buffer.
C12_NormalHasEmptyBuffer ==
    /\ [](input_mode = "Normal" => input = <<>>)
    /\ [][/\ \A m \in InputModes : \A k \in {"Enter", "Esc"} :
                Handles(m, k) => (input_mode' = "Normal" /\ input' = <<>>)
          /\ (input_mode = "Normal" /\ input_mode' # "Normal") => input' = <<>>]_vars

\* Esc has just ended a search that had narrowed the list: the mode is Normal
\* and the buffer is empty.
C12_Witness ==
    /\ pc = "tick"
    /\ iter.keys = <<"Esc">>
    /\ input_mode = "Normal"
    /\ input = <<>>
    /\ repositories.items # allItems

\* Keys of the terminal, and the keys each mode's match lists (run_app.rs 54-74
\* for Normal, 77-89, 93-102 and 106-118 for the input modes, where every
\* character is listed).
AllKeys == Chars \cup {"x", "Left", "Down", "Up", "Enter", "Esc", "Backspace", "F1"}
Listed(m) ==
    IF m = "Normal"
    THEN {"q", "Left", "Down", "Up", "r", "t", "b", ":", "/", "$"}
    ELSE Chars \cup {"x", "Backspace", "Enter", "Esc"}

\* C13: a key its mode does not list, and an event that is no key, changes
\* neither the mode, the selection, the buffer nor any of the four lists, and
\* the loop goes on to its tick; no key in any mode ends the loop with an error.
C13_UnlistedKeyIsNoOp ==
    [][/\ \A m \in InputModes \cup {"Normal"} : \A k \in AllKeys :
             Handles(m, k) =>
                /\ exit' \in {"running", "ok"}
                /\ k \notin Listed(m) =>
                      (UNCHANGED appVars /\ pc' = "tick" /\ exit' = "running")
       /\ (pc = "poll" /\ pc' = "tick" /\ iter'.keys = iter.keys) =>
             (UNCHANGED appVars /\ exit' = "running")]_vars

\* Down was pressed during a search that has narrowed the list: nothing is
\* highlighted, the mode is still Search.
C13_Witness ==
    /\ pc = "tick"
    /\ iter.keys = <<"Down">>
    /\ input_mode = "Search"
    /\ input # <<>>
    /\ repositories.selected = 0
    /\ repositories.items # <<>>

\* C14: Enter in Command runs the command once, with the buffer as it was
\* before the reset; a spawn that fails adds one line to logs and nothing else;
\* either way the step ends in Normal with an empty buffer and the loop goes on.
\* No other step runs a command.
C14_CommandRunsOnceThenResets ==
    [][/\ Handles("Command", "Enter") =>
             /\ \E spawned \in BOOLEAN :
                   /\ iter'.ran = <<[line |-> input, spawned |-> spawned]>>
                   /\ logs'.items = IF spawned THEN logs.items
                                    ELSE Append(logs.items, logs'.items[Len(logs'.items)])
                   /\ (~spawned) => Len(logs'.items) = Len(logs.items) + 1
             /\ input_mode' = "Normal"
             /\ input' = <<>>
             /\ pc' = "tick"
             /\ exit' = "running"
             /\ UNCHANGED <<allItems, repositories, branches, tags, selection>>
       /\ (iter'.ran # iter.ran /\ iter'.ran # <<>>) => Handles("Command", "Enter")]_vars

\* A command typed in Command mode failed to spawn: it ran with the typed line,
\* logs has its one line, the mode is Normal and the buffer empty.
C14_Witness ==
    /\ pc = "tick"
    /\ Len(iter.ran) = 1
    /\ iter.ran[1].line # <<>>
    /\ ~iter.ran[1].spawned
    /\ Len(logs.items) = 1
    /\ input_mode = "Normal"
    /\ input = <<>>
    /\ exit = "running"

\* C15: repository inspection never aborts: get_repository_branches and
\* get_repository_active_branch return a value for every handle, also for one
\* whose branch listing fails, whose branch or HEAD name is not text, or whose
\* HEAD does not resolve.
C15_InspectionNeverAborts == ~inspected.aborted

C17_DrainNeverAborts ==
    [][(pc = "drain" /\ chan # <<>> /\ pc' # pc) =>
          (pc' = "draw" /\ exit' = "running")]_vars

\* C18: draining a change under the root while a search with a non-empty
\* buffer is active leaves the visible list equal to the entries of the fresh
\* scan whose names contain the buffer, in scan order.
C18_RescanKeepsFilter ==
    [][(DrainsChangeUnderRoot /\ input_mode = "Search" /\ input # <<>>) =>
          repositories'.items = Filter(Scan(fs), input)]_vars

\* C19: in every state whose mode is Editing an entry of repositories is
\* highlighted and it is a repository, also when notifications were drained
\* since Editing was entered.
C19_EditingHasRepository ==
    input_mode = "Editing" =>
       (repositories.selected # 0 /\ SelectedOf(repositories).is_repository)

\* Notification id is held by the blocked callback or waits on the channel.
Held(id) == pending # NoMsg /\ pending.id = id
Queued(id) == \E i \in 1..Len(chan) : chan[i].id = id

\* C20: while the loop runs, every notification the watcher produces is
\* enqueued, at once or, when the channel is full, after the callback was
\* blocked, and is then taken from the channel by the loop; a notification
\* enters the channel when it is produced or a blocked send completes and
\* leaves it only at the drain, as the oldest one; the loop can always take
\* a step.
C20_EveryNotificationDrained ==
    /\ \A id \in 1..MaxNotifs :
          /\ Held(id) ~> (Queued(id) \/ exit # "running")
          /\ (Held(id) \/ Queued(id)) ~> (~(Held(id) \/ Queued(id)) \/ exit # "running")
    /\ [](exit = "running" => ENABLED LoopLive)
    /\ [][/\ produced' # produced => \E m \in InFlight' : m.id = produced'
          /\ \A m \in InFlight \ InFlight' :
                /\ pc = "drain"
                /\ m = Head(chan)
                /\ iter'.taken = iter.taken + 1]_vars

\* The channel is full and the callback is blocked with one more notification.
C20_Witness ==
    /\ exit = "running"
    /\ Len(chan) = ChanCap
    /\ pending # NoMsg
    /\ produced = ChanCap + 1

====
